---- MODULE Spec2Model ----
(***************************************************************************)
(* Model of the audio playback arbiter (class AudioQueueManager, listed in *)
(* src/README.md lines 74-210) and of the AudioPlayer component that       *)
(* drives it (src/src/components/AudioPlayer.tsx), and of the speech       *)
(* synthesis client (class TTSService, src/unnamed/part_000 lines 753-1125).*)
(*                                                                         *)
(* The host runtime is single threaded: a handler runs from its call to    *)
(* its first await without interruption.  Each action below is one such    *)
(* run: a public method call up to the point where it suspends or returns, *)
(* or the continuation that runs after an awaited promise has settled.     *)
(***************************************************************************)
EXTENDS FiniteSets, Integers, Naturals, Sequences, TLC

\* ---------------------------------------------------------------- bounds
MaxCalls == 3      \* number of requestPlay calls in one behaviour

\* Identities are non-empty strings: AudioPlayer.tsx line 57 builds the id as
\* playerId || `audio-player-...`, which is never the empty string.  Each call
\* may bring an identity of its own, so there are as many as there are calls.
Ids == 1..MaxCalls
\* the null of currentPlayingId
null == 0

VARIABLES
  currentPlayingId,  \* README.md:79   an identity or null
  playQueue,         \* README.md:80   sequence of queued items (call numbers)
  isProcessing,      \* README.md:81
  calls,             \* one record per requestPlay call, in arrival order
  events,            \* ordered effects of the last handler run
  call,              \* the last handler run and its argument
  audio,             \* identities whose <audio> element is playing
  tts                \* one call of TTSService.synthesize (part_000:945)

vars == <<currentPlayingId, playQueue, isProcessing, calls, events, call, audio, tts>>

\* ------------------------------------------------------------ the events
StopEvent(id) == [type |-> "audioQueueStop", id |-> id, req |-> 0]
StartEvent(r, id) == [type |-> "playFn", id |-> id, req |-> r]

\* The arbiter's fields and what the running handler has done so far.
Here ==
  [currentPlayingId |-> currentPlayingId, playQueue |-> playQueue,
   isProcessing |-> isProcessing,
   calls |-> calls, events |-> <<>>]

Commit(S) ==
  /\ currentPlayingId' = S.currentPlayingId
  /\ playQueue' = S.playQueue
  /\ isProcessing' = S.isProcessing
  /\ calls' = S.calls
  /\ events' = S.events

\* playFn() is invoked: the action of call r starts.
StartAction(S, r) ==
  [S EXCEPT !.calls[r].action = "running",
            !.events = Append(@, StartEvent(r, S.calls[r].id))]

\* ------------------------------------------------------- AudioQueueManager
\* stopCurrent that clears without notifying the player
stopCurrent_silent(S) ==
  IF S.currentPlayingId # null
  THEN [S EXCEPT !.currentPlayingId = null]
  ELSE S

\* stopCurrent that also drops the waiting requests
stopCurrent_clearsQueue(S) ==
  IF S.currentPlayingId # null
  THEN [S EXCEPT !.events = Append(@, StopEvent(S.currentPlayingId)),
                 !.currentPlayingId = null,
                 !.playQueue = <<>>]
  ELSE S

stopCurrent(S) ==
  IF S.currentPlayingId # null
  THEN [S EXCEPT !.events = Append(@, StopEvent(S.currentPlayingId)),
                 !.currentPlayingId = null]
  ELSE S

\* The while loop of processQueue from its condition to the next await, or
\* to the end of processQueue when the condition is false.
whileLoop(S) ==
  IF Len(S.playQueue) > 0 /\ S.currentPlayingId = null
  THEN LET r == Head(S.playQueue) IN
       StartAction([S EXCEPT !.playQueue = Tail(@),
                             !.currentPlayingId = S.calls[r].id], r)
  ELSE [S EXCEPT !.isProcessing = FALSE]

\* processQueue without the isProcessing guard
processQueue_reentrant(S) ==
  IF Len(S.playQueue) = 0 \/ S.currentPlayingId # null
  THEN S
  ELSE whileLoop([S EXCEPT !.isProcessing = TRUE])

processQueue(S) ==
  IF S.isProcessing \/ Len(S.playQueue) = 0 \/ S.currentPlayingId # null
  THEN S
  ELSE whileLoop([S EXCEPT !.isProcessing = TRUE])

NewCall(id, path) ==
  [id |-> id, path |-> path, action |-> "queued", promise |-> "pending"]

\* Both immediate branches: mark id as current and invoke playFn.
playNow(S, id, path) ==
  LET r == Len(S.calls) + 1 IN
  StartAction([S EXCEPT !.currentPlayingId = id,
                        !.calls = Append(@, NewCall(id, path))], r)

\* enqueue with unshift in place of push
enqueue_front(S, id) ==
  LET r == Len(S.calls) + 1 IN
  [S EXCEPT !.calls = Append(@, NewCall(id, "queued")),
            !.playQueue = <<r>> \o @]

enqueue(S, id) ==
  LET r == Len(S.calls) + 1 IN
  [S EXCEPT !.calls = Append(@, NewCall(id, "queued")),
            !.playQueue = Append(@, r)]

\* requestPlay that never waits: the action starts whatever is playing
requestPlay_neverWaits(S, id) ==
  IF S.currentPlayingId = id THEN playNow(stopCurrent(S), id, "retrigger")
  ELSE playNow(S, id, "immediate")

requestPlay(S, id) ==
  IF S.currentPlayingId = null THEN playNow(S, id, "immediate")
  ELSE IF S.currentPlayingId = id THEN playNow(stopCurrent(S), id, "retrigger")
  ELSE enqueue(S, id)

\* onPlayEnded without the identity test
onPlayEnded_any(S, id) ==
  IF S.currentPlayingId # null
  THEN processQueue([S EXCEPT !.currentPlayingId = null])
  ELSE S

onPlayEnded(S, id) ==
  IF S.currentPlayingId = id
  THEN processQueue([S EXCEPT !.currentPlayingId = null])
  ELSE S

\* clearQueue that settles the promises of the requests it removes
clearQueue_resolves(S) ==
  [S EXCEPT !.playQueue = <<>>,
            !.calls = [r \in DOMAIN S.calls |->
                         IF \E i \in DOMAIN S.playQueue : S.playQueue[i] = r
                         THEN [S.calls[r] EXCEPT !.action = "cleared", !.promise = "resolved"]
                         ELSE S.calls[r]]]

\* this.playQueue = []: the removed wrappers, and with them the resolve
\* functions of their promises, are dropped.
clearQueue(S) ==
  [S EXCEPT !.playQueue = <<>>,
            !.calls = [r \in DOMAIN S.calls |->
                         IF \E i \in DOMAIN S.playQueue : S.playQueue[i] = r
                         THEN [S.calls[r] EXCEPT !.action = "cleared"]
                         ELSE S.calls[r]]]

\* the finally block without the processQueue call
finallyImmediate_noDrain(S, r) ==
  [S EXCEPT !.currentPlayingId = null,
            !.calls[r].promise =
              IF S.calls[r].action = "ok" THEN "resolved" ELSE "rejected"]

\* The finally block of an immediate branch, then the promise of requestPlay
\* settles as the action did.
finallyImmediate(S, r) ==
  LET T == processQueue([S EXCEPT !.currentPlayingId = null]) IN
  [T EXCEPT !.calls[r].promise =
              IF S.calls[r].action = "ok" THEN "resolved" ELSE "rejected"]

\* the wrapper without its catch block
wrapperDone_rethrow(S, r) ==
  [S EXCEPT !.calls[r].promise =
              IF S.calls[r].action = "ok" THEN "resolved" ELSE "rejected"]

\* The wrapper pushed by the enqueue branch, after its await: resolve() on
\* success and in the catch block.
wrapperDone(S, r) == [S EXCEPT !.calls[r].promise = "resolved"]

\* processQueue with an if in place of the while: one item, then return
finallyDrain_exits(S) ==
  [S EXCEPT !.currentPlayingId = null, !.isProcessing = FALSE]

\* The finally block of processQueue and the next turn of its loop.
finallyDrain(S) == whileLoop([S EXCEPT !.currentPlayingId = null])

\* The promise of the action of call r settles.
settled(S, r, outcome) == [S EXCEPT !.calls[r].action = outcome]

\* The code that awaits the action of call r.
resume(S, r) ==
  IF S.calls[r].path = "queued"
  THEN finallyDrain(wrapperDone(S, r))
  ELSE finallyImmediate(S, r)

\* ---------------------------------------------------------------- actions
\* Identities are interchangeable: a call uses one that was used before or the
\* next unused one.
UsedIds == {calls[r].id : r \in DOMAIN calls}
KnownIds == {id \in Ids : id = 1 \/ id - 1 \in UsedIds}
\* An identity no call has used matches nothing, as a used one that is not
\* current does: onPlayEnded is tried with the used ones.
EndedIds == IF UsedIds = {} THEN {1} ELSE UsedIds

Init ==
  /\ currentPlayingId = null
  /\ playQueue = <<>>
  /\ isProcessing = FALSE
  /\ calls = <<>>
  /\ events = <<>>
  /\ call = [op |-> "init", id |-> null, req |-> 0]
  /\ audio = {}
  /\ tts = [pc |-> "idle"]

\* The arbiter and the players never touch the synthesis call.
Called(op, id, r) == call' = [op |-> op, id |-> id, req |-> r] /\ UNCHANGED tts

RequestPlay ==
  /\ Len(calls) < MaxCalls
  /\ \E id \in KnownIds :
       /\ Commit(requestPlay(Here, id))
       /\ Called("requestPlay", id, Len(calls) + 1)
  /\ UNCHANGED audio

StopCurrent ==
  /\ Commit(stopCurrent(Here))
  /\ Called("stopCurrent", null, 0)
  /\ UNCHANGED audio

OnPlayEnded ==
  /\ \E id \in EndedIds :
       /\ Commit(onPlayEnded(Here, id))
       /\ Called("onPlayEnded", id, 0)
  /\ UNCHANGED audio

ClearQueue ==
  /\ Commit(clearQueue(Here))
  /\ Called("clearQueue", null, 0)
  /\ UNCHANGED audio

\* The promise returned by playFn settles and the code awaiting it resumes.
\* On the immediate branches that is the finally block of requestPlay.
ImmediateSettles(r, outcome) ==
  /\ r \in DOMAIN calls
  /\ calls[r].path \in {"immediate", "retrigger"}
  /\ calls[r].action = "running"
  /\ Commit(finallyImmediate(settled(Here, r, outcome), r))
  /\ Called("finallyImmediate", calls[r].id, r)
  /\ UNCHANGED audio

\* For a queued item it is the wrapper, then the finally block of processQueue.
QueuedSettles(r, outcome) ==
  /\ r \in DOMAIN calls
  /\ calls[r].path = "queued"
  /\ calls[r].action = "running"
  /\ Commit(finallyDrain(wrapperDone(settled(Here, r, outcome), r)))
  /\ Called("finallyDrain", calls[r].id, r)
  /\ UNCHANGED audio

Outcomes == {"ok", "failed"}

ActionSettles ==
  \/ \E r \in 1..MaxCalls : \E outcome \in Outcomes : ImmediateSettles(r, outcome)
  \/ \E r \in 1..MaxCalls : \E outcome \in Outcomes : QueuedSettles(r, outcome)

Next ==
  \/ RequestPlay
  \/ StopCurrent
  \/ OnPlayEnded
  \/ ClearQueue
  \/ ActionSettles

Spec == Init /\ [][Next]_vars

\* The arbiter when clearQueue is never called and every action settles.
NextNoClear ==
  \/ RequestPlay
  \/ StopCurrent
  \/ OnPlayEnded
  \/ ActionSettles

Fairness ==
  \A r \in 1..MaxCalls :
    /\ WF_vars(\E outcome \in Outcomes : ImmediateSettles(r, outcome))
    /\ WF_vars(\E outcome \in Outcomes : QueuedSettles(r, outcome))

SpecFair == Init /\ [][NextNoClear]_vars /\ Fairness

\* ------------------------------------------------------------- AudioPlayer
\* handleQueueStop: the player whose id the event carries pauses its element.
handleQueueStop(playing, evs) ==
  playing \ {evs[i].id : i \in {j \in DOMAIN evs : evs[j].type = "audioQueueStop"}}

\* handlePlay of the player with id p: requestPlay(currentPlayerId, action).
HandlePlay ==
  /\ Len(calls) < MaxCalls
  /\ \E p \in KnownIds :
       /\ Commit(requestPlay(Here, p))
       /\ Called("handlePlay", p, Len(calls) + 1)
  /\ audio' = handleQueueStop(audio, events')

\* The action passed by handlePlay reaches its end: audio.play() has started
\* the element, or loading or play() failed and the catch block swallowed it.
\* Either way the action's promise is fulfilled and the arbiter resumes.
PlayAction(r, played) ==
  /\ r \in DOMAIN calls
  /\ calls[r].action = "running"
  /\ Commit(resume(settled(Here, r, "ok"), r))
  /\ Called("playAction", calls[r].id, r)
  /\ audio' = IF played THEN audio \cup {calls[r].id} ELSE audio \ {calls[r].id}

PlayActionEnds == \E r \in 1..MaxCalls : \E played \in BOOLEAN : PlayAction(r, played)

\* The element of player p reaches the end of its audio.
HandleEnded ==
  \E p \in audio :
    /\ Commit(onPlayEnded(Here, p))
    /\ Called("handleEnded", p, 0)
    /\ audio' = audio \ {p}

HandlePause ==
  \E p \in audio :
    /\ Commit(Here)
    /\ Called("handlePause", p, 0)
    /\ audio' = audio \ {p}

NextPlayer ==
  \/ HandlePlay
  \/ PlayActionEnds
  \/ HandleEnded
  \/ HandlePause

SpecPlayer == Init /\ [][NextPlayer]_vars

\* ------------------------------------------------------------------ claims
Running == {r \in DOMAIN calls : calls[r].action = "running"}
Started(r) == calls[r].action \in {"running", "ok", "failed"}
Queued == {r \in DOMAIN calls : calls[r].path = "queued"}
arbiter == <<currentPlayingId, playQueue, isProcessing, calls>>

\* C1: no two actions passed to requestPlay are running (started and not yet
\* settled) at the same time.
C1_NoTwoActionsRunning == Cardinality(Running) <= 1

\* C2: with AudioPlayer components requesting playback through handlePlay, at
\* most one audio element is playing at any time.
C2_AtMostOneAudioPlaying == Cardinality(audio) <= 1

\* C3: requests enqueued by requestPlay and not removed by clearQueue start in
\* arrival order, and a queued action starts only when every queued action
\* that arrived before it has settled (none is still waiting or running).
C3_QueueIsFifo ==
  \A r1 \in Queued : \A r2 \in Queued :
    (r1 < r2 /\ Started(r2)) => calls[r1].action \in {"ok", "failed", "cleared"}

C3_Witness ==
  \E r1 \in Queued : \E r2 \in Queued :
    r1 < r2 /\ calls[r1].action \in {"ok", "failed"} /\ calls[r2].action = "running"

\* C4: when every action settles and clearQueue is never called, every call of
\* requestPlay has its action started and its promise settled eventually; no
\* request stays in pendingQueue forever.
C4_NoStarvation ==
  \A r \in 1..MaxCalls :
    (r \in DOMAIN calls) ~>
      (r \in DOMAIN calls /\ Started(r) /\ calls[r].promise # "pending"
         /\ \A i \in DOMAIN playQueue : playQueue[i] # r)

C4_Witness ==
  \E r \in Queued : calls[r].promise = "resolved" /\ playQueue = <<>>

\* C5: requestPlay(id, action) while currentPlayingId equals id emits exactly
\* one stop notification, carrying id, and emits it before the action starts.
C5_RetriggerStopsOnce ==
  [][(call'.op = "requestPlay" /\ currentPlayingId = call'.id)
       => events' = <<StopEvent(call'.id), StartEvent(call'.req, call'.id)>>]_vars

C5_Witness ==
  /\ call.op = "requestPlay"
  /\ calls[call.req].path = "retrigger"
  /\ playQueue # <<>>

\* C6: onPlayEnded(x) with x different from currentPlayingId (also when nothing
\* is playing) changes no field, starts no action and emits no notification.
C6_OnPlayEndedMismatchIsNoOp ==
  [][(call'.op = "onPlayEnded" /\ currentPlayingId # call'.id)
       => (UNCHANGED arbiter /\ events' = <<>>)]_vars

C6_Witness ==
  /\ call.op = "onPlayEnded"
  /\ events = <<>>
  /\ currentPlayingId \notin {null, call.id}
  /\ playQueue # <<>>
  /\ ~isProcessing

\* C7: the promise of an enqueued request settles only after its queued action
\* has run and settled, and it resolves even when the action threw: it is
\* never rejected.
C7_QueuedPromiseAlwaysResolves ==
  \A r \in Queued :
    /\ calls[r].promise # "rejected"
    /\ calls[r].promise = "resolved" => calls[r].action \in {"ok", "failed"}

C7_Witness ==
  \E r \in Queued : calls[r].action = "failed" /\ calls[r].promise = "resolved"

\* C8: on the immediate path, when the action has settled the promise of
\* requestPlay is rejected if the action failed and resolved otherwise, and
\* currentPlayingId is cleared and the queue drained: with no drain under way
\* and a non-empty queue its head is started, otherwise nothing is playing.
C8_ImmediateCompletion ==
  [][(call'.op = "finallyImmediate")
       => /\ calls'[call'.req].promise =
               (IF calls'[call'.req].action = "failed" THEN "rejected" ELSE "resolved")
          /\ IF playQueue # <<>> /\ ~isProcessing
             THEN /\ currentPlayingId' = calls[Head(playQueue)].id
                  /\ playQueue' = Tail(playQueue)
                  /\ calls'[Head(playQueue)].action = "running"
                  /\ isProcessing'
             ELSE /\ currentPlayingId' = null
                  /\ playQueue' = playQueue
                  /\ events' = <<>>]_vars

C8_Witness ==
  /\ call.op = "finallyImmediate"
  /\ calls[call.req].promise = "rejected"
  /\ events # <<>>
  /\ isProcessing

\* C9: stopCurrent with an identity playing emits one stop notification
\* carrying it and sets currentPlayingId to null, leaving the queue and
\* isProcessing alone and starting no action; with nothing playing it emits
\* nothing and changes nothing.
C9_StopCurrentFrame ==
  [][(call'.op = "stopCurrent")
       => IF currentPlayingId # null
          THEN /\ events' = <<StopEvent(currentPlayingId)>>
               /\ currentPlayingId' = null
               /\ UNCHANGED <<playQueue, isProcessing, calls>>
          ELSE events' = <<>> /\ UNCHANGED arbiter]_vars

C9_Witness ==
  /\ call.op = "stopCurrent"
  /\ Len(events) = 1
  /\ playQueue # <<>>
  /\ ~isProcessing

\* C10 as stated: onPlayEnded(x) while currentPlayingId equals x clears it and,
\* if the queue is non-empty, dequeues and starts its head in that call.
C10_OnPlayEndedStartsHead ==
  [][(call'.op = "onPlayEnded" /\ currentPlayingId = call'.id)
       => IF playQueue # <<>>
          THEN /\ currentPlayingId' = calls[Head(playQueue)].id
               /\ playQueue' = Tail(playQueue)
               /\ calls'[Head(playQueue)].action = "running"
          ELSE currentPlayingId' = null]_vars

\* C10 amended: onPlayEnded(x) while currentPlayingId equals x clears it; if
\* the queue is non-empty and no drain is under way, its head is dequeued and
\* started in that call; if a drain is under way (isProcessing) the call only
\* clears currentPlayingId and starts nothing.
C10_OnPlayEndedDrainsUnlessDraining ==
  [][(call'.op = "onPlayEnded" /\ currentPlayingId = call'.id)
       => IF playQueue # <<>> /\ ~isProcessing
          THEN /\ currentPlayingId' = calls[Head(playQueue)].id
               /\ playQueue' = Tail(playQueue)
               /\ calls'[Head(playQueue)].action = "running"
               /\ isProcessing'
          ELSE /\ currentPlayingId' = null
               /\ UNCHANGED <<playQueue, isProcessing, calls>>
               /\ events' = <<>>]_vars

C10_Witness ==
  /\ call.op = "onPlayEnded"
  /\ Len(events) = 1
  /\ events[1].type = "playFn"
  /\ currentPlayingId # call.id

\* ============================================================== TTSService
\* ------------------------------------------------------ program constants
retryCount == 3                 \* part_000:755
MaxTextLength == 1000           \* part_000:961
AlternateSuccessCode == 20000000 \* part_000:1025

\* ---------------------------------------------------------------- errors
\* An error is its name and its message.  The code only asks whether the
\* message includes certain substrings, so a message is the set of those
\* substrings it includes, in the spelling it has them.
Err(name, kind, msg) == [name |-> name, kind |-> kind, msg |-> msg]

toLowerCase(msg) ==
  {IF w = "Unauthorized" THEN "unauthorized"
   ELSE IF w = "Invalid" THEN "invalid"
   ELSE w : w \in msg}

\* The reason phrase of a status line; HTTP/2 responses have none.
ReasonPhrase(status) ==
  CASE status = 401 -> {"Unauthorized"}
    [] status = 403 -> {"Forbidden"}
    [] status = 404 -> {"Not Found"}
    [] status = 429 -> {"Too Many Requests"}
    [] status = 500 -> {"Internal Server Error"}
    [] OTHER -> {"OK"}

StatusDigits(status) ==
  CASE status = 401 -> {"401"}
    [] status = 403 -> {"403"}
    [] status = 429 -> {"429"}
    [] status = 500 -> {"500"}
    [] OTHER -> {}

\* new Error(`HTTP ${response.status}: ${response.statusText}`)
HttpError(status, withPhrase) ==
  Err("Error", "http",
      {"HTTP"} \cup StatusDigits(status)
        \cup (IF withPhrase THEN ReasonPhrase(status) ELSE {}))

\* What fetch() rejects with.
NetworkError == Err("TypeError", "network", {"fetch"})         \* Failed to fetch
InvalidValueError == Err("TypeError", "argument", {"fetch", "Invalid"})
AbortError == Err("AbortError", "abort", {})                   \* controller.abort()

\* isConfigurationError that forgets the 403
isConfigurationError_no403(error) ==
  LET errorMessage == toLowerCase(error.msg) IN
    \/ "401" \in errorMessage
    \/ "invalid" \in errorMessage
    \/ "unauthorized" \in errorMessage

isConfigurationError(error) ==
  LET errorMessage == toLowerCase(error.msg) IN
    \/ "401" \in errorMessage
    \/ "403" \in errorMessage
    \/ "invalid" \in errorMessage
    \/ "unauthorized" \in errorMessage

\* the classification without its test for 401
handleApiError_no401(error) ==
  IF error.name = "AbortError" THEN "Timeout"
  ELSE IF "403" \in error.msg THEN "PermissionError"
  ELSE IF "429" \in error.msg THEN "RateLimited"
  ELSE IF "500" \in error.msg THEN "ServerError"
  ELSE IF "network" \in error.msg \/ "fetch" \in error.msg THEN "NetworkError"
  ELSE error.kind

\* TTSService.handleApiError: the fixed text chosen for the error, or the
\* error's own message.
handleApiError(error) ==
  IF error.name = "AbortError" THEN "Timeout"
  ELSE IF "401" \in error.msg THEN "AuthError"
  ELSE IF "403" \in error.msg THEN "PermissionError"
  ELSE IF "429" \in error.msg THEN "RateLimited"
  ELSE IF "500" \in error.msg THEN "ServerError"
  ELSE IF "network" \in error.msg \/ "fetch" \in error.msg THEN "NetworkError"
  ELSE error.kind

\* ------------------------------------------------- response reassembly
\* The response text is a sequence of lines.  A line is blank, is not JSON
\* ("bad"), is the JSON null, or is a JSON object (a fragment) with a code
\* (<<>> when the field is absent, <<n>> otherwise), a message (the
\* substrings of interest it includes) and a data string (a sequence of
\* characters; an absent, null or empty data field is <<>>: each is falsy at
\* lines 1034 and 1064).
Line(kind, code, message, data) ==
  [kind |-> kind, code |-> code, message |-> message, data |-> data]
BlankLine == Line("blank", <<>>, {}, <<>>)
BadLine == Line("bad", <<>>, {}, <<>>)
NullLine == Line("null", <<>>, {}, <<>>)
Fragment(code, message, data) == Line("frag", code, message, data)

Thrown(error) == [thrown |-> TRUE, error |-> error, audio |-> <<>>]
Returned(data) == [thrown |-> FALSE, error |-> Err("", "", {}), audio |-> data]

\* The digits of interest in `${code}`.
CodeDigits(code) ==
  IF code \in {<<401>>, <<-401>>} THEN {"401"}
  ELSE IF code \in {<<403>>, <<-403>>} THEN {"403"}
  ELSE IF code \in {<<429>>, <<-429>>} THEN {"429"}
  ELSE IF code \in {<<500>>, <<-500>>} THEN {"500"}
  ELSE {}

\* code !== 0 && code !== 20000000
NotSuccessCode(code) == code # <<0>> /\ code # <<AlternateSuccessCode>>
\* the truthiness of result.code
Truthy(code) == code # <<>> /\ code # <<0>>

\* `API返回错误: ${message} (状态码: ${code})`
UpstreamError(frag) ==
  Err("Error", "UpstreamError", frag.message \cup CodeDigits(frag.code))
\* `第${i + 1}行JSON解析失败: ${errorMessage}`
LineError(cause) == Err("Error", cause.kind, cause.msg)
SyntaxError == Err("SyntaxError", "MalformedResponse", {})
NullTypeError == Err("TypeError", "MalformedResponse", {})

\* responseText.trim().split('\n').filter(line => line.trim())
splitLines(responseText) == SelectSeq(responseText, LAMBDA l : l.kind # "blank")

\* !responseText || responseText.trim().length === 0
isEmptyResponse(responseText) ==
  \A i \in DOMAIN responseText : responseText[i].kind = "blank"

\* the parts joined last to first
RECURSIVE join_reversed(_)
join_reversed(parts) ==
  IF parts = <<>> THEN <<>> ELSE join_reversed(Tail(parts)) \o Head(parts)

\* audioDataParts.join('')
RECURSIVE join(_)
join(parts) == IF parts = <<>> THEN <<>> ELSE Head(parts) \o join(Tail(parts))

\* JSON.parse(line) never throwing: an unparsable line read as an empty object
JSONparseThrows_never(line) == FALSE

\* JSON.parse(line) throws a SyntaxError.
JSONparseThrows(line) == line.kind = "bad"

\* every code that is not a success code taken as fatal
isFatalCode_anyNonSuccess(code) == NotSuccessCode(code) /\ code # <<>>

\* no code taken as fatal
isFatalCode_never(code) == FALSE

\* code !== 0 && code !== 20000000, and then code < 0 (lines 1025-1028)
isFatalCode(code) == NotSuccessCode(code) /\ code # <<>> /\ code[1] < 0

\* The for loop at lines 1017-1051 from index i on.
RECURSIVE lineLoop(_, _, _, _)
lineLoop(lines, i, audioDataParts, finalResult) ==
  IF i > Len(lines)
  THEN [thrown |-> FALSE, error |-> Err("", "", {}), parsed |-> Len(lines),
        audioDataParts |-> audioDataParts, finalResult |-> finalResult]
  ELSE LET line == lines[i] IN
    IF JSONparseThrows(line) THEN
      [thrown |-> TRUE, error |-> LineError(SyntaxError), parsed |-> i,
       audioDataParts |-> audioDataParts, finalResult |-> finalResult]
    ELSE IF line.kind = "null" THEN
      [thrown |-> TRUE, error |-> LineError(NullTypeError), parsed |-> i,
       audioDataParts |-> audioDataParts, finalResult |-> finalResult]
    ELSE IF isFatalCode(line.code) THEN
      [thrown |-> TRUE, error |-> LineError(UpstreamError(line)), parsed |-> i,
       audioDataParts |-> audioDataParts, finalResult |-> finalResult]
    ELSE lineLoop(lines, i + 1,
                  IF Len(line.data) > 0 THEN Append(audioDataParts, line.data)
                  ELSE audioDataParts,
                  line)

\* `API返回的不是有效的JSON格式: ${errorMessage}`
FallbackError(cause) == Err("Error", cause.kind, cause.msg)
EmptyAudioData == Err("Error", "EmptyAudioData", {})

\* the fallback with the status rule of the line loop: only negative codes fatal
singleObject_negativeOnly(responseText) ==
  LET lines == splitLines(responseText) IN
  IF Len(lines) # 1 \/ JSONparseThrows(lines[1]) THEN Thrown(FallbackError(SyntaxError))
  ELSE IF lines[1].kind = "null" THEN Thrown(FallbackError(NullTypeError))
  ELSE IF isFatalCode(lines[1].code) THEN Thrown(FallbackError(UpstreamError(lines[1])))
  ELSE IF Len(lines[1].data) = 0 THEN Thrown(FallbackError(EmptyAudioData))
  ELSE Returned(lines[1].data)

\* Lines 1054-1084: JSON.parse of the whole trimmed text.  Two or more
\* non-blank lines are not one JSON value.
singleObject(responseText) ==
  LET lines == splitLines(responseText) IN
  IF Len(lines) # 1 \/ JSONparseThrows(lines[1]) THEN Thrown(FallbackError(SyntaxError))
  ELSE IF lines[1].kind = "null" THEN Thrown(FallbackError(NullTypeError))
  ELSE IF NotSuccessCode(lines[1].code) THEN Thrown(FallbackError(UpstreamError(lines[1])))
  ELSE IF Len(lines[1].data) = 0 THEN Thrown(FallbackError(EmptyAudioData))
  ELSE Returned(lines[1].data)

\* new Error(result.message || '语音合成失败')
FinalStatusError(frag) == Err("Error", "FinalStatus", frag.message)

\* the combination without the final status check
combine_noFinalCheck(audioDataParts, finalResult) ==
  LET combinedAudioData == join(audioDataParts) IN
  IF Len(combinedAudioData) > 0 THEN Returned(combinedAudioData)
  ELSE Thrown(EmptyAudioData)

\* Lines 1086-1114.
combine(audioDataParts, finalResult) ==
  LET combinedAudioData == join(audioDataParts) IN
  IF Truthy(finalResult.code) /\ NotSuccessCode(finalResult.code)
  THEN Thrown(FinalStatusError(finalResult))
  ELSE IF Len(combinedAudioData) > 0 THEN Returned(combinedAudioData)
  ELSE Thrown(EmptyAudioData)

\* the reassembly without the test for an empty response
reassemble_noEmptyCheck(responseText) ==
  LET loop == lineLoop(splitLines(responseText), 1, <<>>, BlankLine) IN
    IF loop.thrown THEN Thrown(loop.error)
    ELSE IF Len(loop.audioDataParts) = 0 THEN singleObject(responseText)
    ELSE combine(loop.audioDataParts, loop.finalResult)

\* Lines 1004-1114: from the response text to the audio or the thrown error.
reassemble(responseText) ==
  IF isEmptyResponse(responseText) THEN Thrown(Err("Error", "EmptyResponse", {}))
  ELSE LET loop == lineLoop(splitLines(responseText), 1, <<>>, BlankLine) IN
    IF loop.thrown THEN Thrown(loop.error)
    ELSE IF Len(loop.audioDataParts) = 0 THEN singleObject(responseText)
    ELSE combine(loop.audioDataParts, loop.finalResult)

\* What the reassembly did on the way: whether it split the text into lines
\* (line 1010) and how many times it called JSON.parse (lines 1022, 1057).
didSplit(responseText) == ~isEmptyResponse(responseText)
JSONparseCalls(responseText) ==
  IF isEmptyResponse(responseText) THEN 0
  ELSE LET loop == lineLoop(splitLines(responseText), 1, <<>>, BlankLine) IN
    loop.parsed + (IF ~loop.thrown /\ Len(loop.audioDataParts) = 0 THEN 1 ELSE 0)

\* The TTSResponse of synthesize.
Success(data) == [status |-> "success", audio |-> data, error |-> ""]
Failure(error) == [status |-> "failure", audio |-> <<>>, error |-> error]
Pending == [status |-> "pending", audio |-> <<>>, error |-> ""]

\* The catch block at lines 1115-1124.
catchBlock(error) == Failure(handleApiError(error))

\* ------------------------------------------------------------ synthesize
MaxLines == 3      \* lines in a response text

\* One call: the configuration it finds, its text (length in UTF-16 units and
\* whether trim() leaves nothing), where it is suspended, and what happened.
TextLengths ==
  {0, 1, MaxTextLength - 1, MaxTextLength, MaxTextLength + 1, 2 * MaxTextLength}
Texts == {t \in [len : TextLengths, blank : BOOLEAN] : t.len = 0 => t.blank}

NewSynthesis(appId, accessKey, text) ==
  [pc |-> "start", appId |-> appId, accessKey |-> accessKey, text |-> text,
   attempt |-> 0, fetches |-> 0, delays |-> 0, outcomes |-> <<>>,
   timers |-> {}, stalled |-> FALSE, responseText |-> <<>>,
   split |-> FALSE, parsed |-> 0, result |-> Pending]

Outcome(kind, status) == [kind |-> kind, status |-> status]

validateConfig(t) == t.appId /\ t.accessKey

\* The promise of synthesize is fulfilled with result.
return(t, result) == [t EXCEPT !.pc = "done", !.result = result]

\* A throw that reaches the catch block of synthesize, rethrown past it.
throwToCatch_rethrow(t, error) ==
  return(t, [status |-> "rejected", audio |-> <<>>, error |-> error.kind])

\* A throw that reaches the catch block of synthesize.
throwToCatch(t, error) == return(t, catchBlock(error))

\* requestWithRetry up to its await fetch(): a new controller and its timer.
requestWithRetry(t, attempt) ==
  [t EXCEPT !.pc = "fetching", !.attempt = attempt, !.fetches = @ + 1,
            !.timers = @ \cup {attempt}, !.stalled = FALSE]

\* the validation with the length test off by one
synthesize_offByOne(t) ==
  IF ~validateConfig(t) THEN return(t, Failure("NotConfigured"))
  ELSE IF t.text.len = 0 \/ t.text.blank THEN return(t, Failure("EmptyText"))
  ELSE IF t.text.len >= MaxTextLength THEN return(t, Failure("TextTooLong"))
  ELSE requestWithRetry(t, 1)

\* synthesize up to its first await (lines 945-985).
synthesize(t) ==
  IF ~validateConfig(t) THEN return(t, Failure("NotConfigured"))
  ELSE IF t.text.len = 0 \/ t.text.blank THEN return(t, Failure("EmptyText"))
  ELSE IF t.text.len > MaxTextLength THEN return(t, Failure("TextTooLong"))
  ELSE requestWithRetry(t, 1)

\* the catch block with <= in place of <: one attempt too many
catchRetry_oneMore(t, error) ==
  LET u == [t EXCEPT !.outcomes = Append(@, Outcome(error.kind, 0))] IN
  IF t.attempt <= retryCount /\ ~isConfigurationError(error)
  THEN [u EXCEPT !.pc = "delaying"]
  ELSE throwToCatch(u, error)

\* the catch block that retries at once, without the delay
catchRetry_noDelay(t, error) ==
  LET u == [t EXCEPT !.outcomes = Append(@, Outcome(error.kind, 0))] IN
  IF t.attempt < retryCount /\ ~isConfigurationError(error)
  THEN requestWithRetry(u, t.attempt + 1)
  ELSE throwToCatch(u, error)

\* The catch block of requestWithRetry (lines 820-831) up to its await.
catchRetry(t, error) ==
  LET u == [t EXCEPT !.outcomes = Append(@, Outcome(error.kind, 0))] IN
  IF t.attempt < retryCount /\ ~isConfigurationError(error)
  THEN [u EXCEPT !.pc = "delaying"]
  ELSE throwToCatch(u, error)

\* fetch() is fulfilled: lines 812-819, then synthesize up to response.text().
fetchFulfilled(t, status, withPhrase) ==
  LET u == [t EXCEPT !.timers = @ \ {t.attempt}] IN
  IF status # 200
  THEN LET v == catchRetry(u, HttpError(status, withPhrase)) IN
       [v EXCEPT !.outcomes[Len(v.outcomes)].status = status]
  ELSE [u EXCEPT !.pc = "readingBody",
                 !.outcomes = Append(@, Outcome("ok", status))]

\* The timer of attempt n fires: controller.abort().  It rejects what that
\* controller's request still awaits, and nothing when the request is over.
timerFires(t, n) ==
  LET u == [t EXCEPT !.timers = @ \ {n}] IN
  IF n = t.attempt /\ t.pc = "fetching" THEN catchRetry(u, AbortError)
  ELSE IF n = t.attempt /\ t.pc = "readingBody" THEN throwToCatch(u, AbortError)
  ELSE u

\* the reassembly run inside requestWithRetry: its errors are retried
bodyRead_retried(t, responseText) ==
  LET r == reassemble(responseText)
      u == [t EXCEPT !.responseText = responseText,
                     !.split = didSplit(responseText),
                     !.parsed = JSONparseCalls(responseText)] IN
  IF r.thrown THEN catchRetry(u, r.error) ELSE return(u, Success(r.audio))

\* response.text() is fulfilled: lines 999-1114.
bodyRead(t, responseText) ==
  LET r == reassemble(responseText)
      u == [t EXCEPT !.responseText = responseText,
                     !.split = didSplit(responseText),
                     !.parsed = JSONparseCalls(responseText)] IN
  IF r.thrown THEN throwToCatch(u, r.error) ELSE return(u, Success(r.audio))

\* ---------------------------------------------------------------- actions
StatesOfArbiter ==
  /\ currentPlayingId = null
  /\ playQueue = <<>>
  /\ isProcessing = FALSE
  /\ calls = <<>>
  /\ events = <<>>
  /\ call = [op |-> "init", id |-> null, req |-> 0]
  /\ audio = {}

ArbiterIdle == UNCHANGED <<currentPlayingId, playQueue, isProcessing, calls, events, call, audio>>

InitTTS ==
  /\ StatesOfArbiter
  /\ \E appId \in BOOLEAN : \E accessKey \in BOOLEAN : \E text \in Texts :
       tts = NewSynthesis(appId, accessKey, text)

Synthesize ==
  /\ tts.pc = "start"
  /\ tts' = synthesize(tts)
  /\ ArbiterIdle

HttpStatuses == {200, 401, 403, 404, 429, 500}

FetchFulfilled(status, withPhrase) ==
  /\ tts.pc = "fetching"
  /\ ~tts.stalled
  /\ tts' = fetchFulfilled(tts, status, withPhrase)
  /\ ArbiterIdle

FetchRejected ==
  /\ tts.pc = "fetching"
  /\ ~tts.stalled
  /\ \E error \in {NetworkError, InvalidValueError} : tts' = catchRetry(tts, error)
  /\ ArbiterIdle

TimerFires ==
  /\ tts.pc \in {"fetching", "delaying", "readingBody", "done"}
  /\ \E n \in tts.timers : tts' = timerFires(tts, n)
  /\ ArbiterIdle

\* setTimeout(resolve, retryDelay) fires: the next attempt (line 827).
DelayElapsed ==
  /\ tts.pc = "delaying"
  /\ tts' = requestWithRetry([tts EXCEPT !.delays = @ + 1], tts.attempt + 1)
  /\ ArbiterIdle

\* The server stops sending: nothing more arrives for this attempt.
ServerStalls ==
  /\ tts.pc \in {"fetching", "readingBody"}
  /\ ~tts.stalled
  /\ tts' = [tts EXCEPT !.stalled = TRUE]
  /\ ArbiterIdle

\* Response texts the protocol is tried with.
AA == <<"A", "A">>
BB == <<"B", "B">>
ZZZZ == <<"Z", "Z", "Z", "Z">>
SampleTexts ==
  { <<>>, <<BlankLine>>, <<BadLine>>,
    <<Fragment(<<0>>, {}, ZZZZ)>>,
    <<Fragment(<<0>>, {}, AA), Fragment(<<0>>, {}, BB), Fragment(<<0>>, {}, <<>>)>>,
    <<Fragment(<<0>>, {}, AA), Fragment(<<-1>>, {}, <<>>)>>,
    <<Fragment(<<0>>, {}, <<>>)>>,
    <<Fragment(<<401>>, {}, <<>>)>> }

BodyRead(responseTexts) ==
  /\ tts.pc = "readingBody"
  /\ ~tts.stalled
  /\ \E responseText \in responseTexts : tts' = bodyRead(tts, responseText)
  /\ ArbiterIdle

\* response.text() is rejected: the connection broke while the body came.
BodyReadRejected ==
  /\ tts.pc = "readingBody"
  /\ ~tts.stalled
  /\ tts' = throwToCatch([tts EXCEPT !.outcomes = Append(@, Outcome("body", 0))],
                          Err("TypeError", "network", {"network"}))
  /\ ArbiterIdle

NextTTS ==
  \/ Synthesize
  \/ \E status \in HttpStatuses : \E withPhrase \in BOOLEAN : FetchFulfilled(status, withPhrase)
  \/ FetchRejected
  \/ TimerFires
  \/ DelayElapsed
  \/ ServerStalls
  \/ BodyRead(SampleTexts)
  \/ BodyReadRejected

SpecTTS == InitTTS /\ [][NextTTS]_vars

\* Response reassembly on every response text of up to MaxLines lines.
Codes == {<<>>, <<0>>, <<AlternateSuccessCode>>, <<401>>, <<-1>>, <<-401>>}
LineValues ==
  {BlankLine, BadLine, NullLine}
    \cup {Fragment(code, {}, data) : code \in Codes, data \in {<<>>, AA, BB, ZZZZ}}
ResponseTexts == UNION {[1..n -> LineValues] : n \in 0..MaxLines}

InitParse ==
  /\ StatesOfArbiter
  /\ tts = NewSynthesis(TRUE, TRUE, [len |-> 1, blank |-> FALSE])

NextParse ==
  \/ Synthesize
  \/ FetchFulfilled(200, TRUE)
  \/ BodyRead(ResponseTexts)

SpecParse == InitParse /\ [][NextParse]_vars

\* ------------------------------------------------- claims on synthesize
ConfigOk == tts.appId /\ tts.accessKey
LastOutcome(t) == t.outcomes[Len(t.outcomes)]
\* The attempt in flight has just failed with an outcome that satisfies P.
AttemptFails(P(_)) ==
  /\ tts.pc = "fetching"
  /\ Len(tts'.outcomes) = Len(tts.outcomes) + 1
  /\ P(LastOutcome(tts'))
NothingMoreTried ==
  /\ tts'.pc = "done"
  /\ tts'.result.status = "failure"
  /\ tts'.fetches = tts.fetches
  /\ tts'.delays = tts.delays
Transient(o) ==
  \/ o.kind \in {"abort", "network"}
  \/ o.kind = "http" /\ o.status \in {500, 429}
ConfigurationFailure(o) ==
  \/ o.kind = "http" /\ o.status \in {401, 403}
  \/ o.kind = "argument"

\* C11: synthesize ends only by resolving with a Success or a Failure value,
\* never by rejecting: whatever was thrown after validation, and every
\* validation failure, has become a Failure result.
C11_NeverRejects ==
  /\ tts.result.status \in {"pending", "success", "failure"}
  /\ tts.pc = "done" <=> tts.result.status \in {"success", "failure"}
  /\ tts.result.status = "failure" => tts.result.audio = <<>> /\ tts.result.error # ""

C11_Witness ==
  /\ tts.pc = "done"
  /\ tts.fetches = retryCount
  /\ tts.result = Failure("Timeout")

\* C12: absent credentials, an empty or all-blank text and a text of more
\* than 1000 characters each end the call with the matching Failure, with no
\* network attempt and no delay; 1000 non-blank characters pass validation.
C12_ValidationFailsFast ==
  LET reasons == (IF ~ConfigOk THEN {"NotConfigured"} ELSE {})
                   \cup (IF tts.text.blank THEN {"EmptyText"} ELSE {})
                   \cup (IF tts.text.len > MaxTextLength THEN {"TextTooLong"} ELSE {})
  IN tts.pc # "start" =>
       /\ reasons # {} =>
            /\ tts.pc = "done"
            /\ tts.result.status = "failure"
            /\ tts.result.error \in reasons
            /\ tts.fetches = 0
            /\ tts.delays = 0
       /\ ~ConfigOk => tts.result.error = "NotConfigured"
       /\ reasons = {} => tts.fetches >= 1

C12_Witness ==
  /\ tts.pc = "fetching"
  /\ tts.text = [len |-> MaxTextLength, blank |-> FALSE]
  /\ tts.fetches = 1

C14_ConfigurationErrorsEndTheCall ==
  [][AttemptFails(ConfigurationFailure) => NothingMoreTried]_vars

C14_Witness ==
  /\ tts.pc = "done"
  /\ tts.outcomes = <<Outcome("http", 500), Outcome("http", 403)>>
  /\ tts.fetches = 2
  /\ tts.delays = 1
  /\ tts.result = Failure("PermissionError")

\* C15: k attempts (k = 0, 1, 2) answered with HTTP 500 and then a well-formed
\* successful response: the call returns Success after exactly k delays.
WellFormed(responseText) ==
  /\ responseText # <<>>
  /\ \A i \in DOMAIN responseText :
       /\ responseText[i].kind = "frag"
       /\ responseText[i].code \in {<<0>>, <<AlternateSuccessCode>>}
  /\ \E i \in DOMAIN responseText : responseText[i].data # <<>>

C15_SuccessAfterKDelays ==
  LET k == Len(tts.outcomes) - 1 IN
  ( /\ tts.pc = "done"
    /\ k >= 0
    /\ LastOutcome(tts).kind = "ok"
    /\ \A i \in 1..k : tts.outcomes[i] = Outcome("http", 500)
    /\ WellFormed(tts.responseText) )
  => /\ tts.result.status = "success"
     /\ tts.delays = k
     /\ k <= retryCount - 1

C15_Witness ==
  /\ tts.pc = "done"
  /\ tts.outcomes = <<Outcome("http", 500), Outcome("http", 500), Outcome("ok", 200)>>
  /\ tts.result.status = "success"
  /\ tts.delays = 2

\* Timers fire and the synchronous part of a call runs; what the server
\* does is up to the server.
FairnessTTS ==
  /\ WF_vars(Synthesize)
  /\ WF_vars(TimerFires)
  /\ WF_vars(DelayElapsed)

SpecTTSFair == SpecTTS /\ FairnessTTS

\* C16: an attempt on which the server stalls, before answering or while
\* sending the body, is abandoned when its timeout elapses: the call goes on
\* to its retry delay or ends.
C16_StalledAttemptIsAbandoned ==
  tts.stalled ~> tts.pc \in {"delaying", "done"}

\* ------------------------------------------ claims on response reassembly
SuccessCodes == {<<0>>, <<AlternateSuccessCode>>}
IsFragment(l) == l.kind = "frag"
IsBlank(l) == l.kind = "blank"
Negative(l) == IsFragment(l) /\ l.code # <<>> /\ l.code[1] < 0
Positive(l) == IsFragment(l) /\ l.code # <<>> /\ l.code[1] > 0 /\ l.code \notin SuccessCodes
\* Every non-blank line is a fragment whose code satisfies P; there is one.
AllFragments(responseText, P(_)) ==
  /\ \E i \in DOMAIN responseText : ~IsBlank(responseText[i])
  /\ \A i \in DOMAIN responseText :
       IsBlank(responseText[i]) \/ (IsFragment(responseText[i]) /\ P(responseText[i]))
\* The chunks of the fragments, one after the other in line order.
RECURSIVE ChunksInOrder(_)
ChunksInOrder(responseText) ==
  IF responseText = <<>> THEN <<>>
  ELSE (IF IsFragment(Head(responseText)) THEN Head(responseText).data ELSE <<>>)
         \o ChunksInOrder(Tail(responseText))
LastLine(responseText) ==
  responseText[CHOOSE i \in DOMAIN responseText :
                 /\ ~IsBlank(responseText[i])
                 /\ \A j \in DOMAIN responseText : j > i => IsBlank(responseText[j])]
Answered == tts.pc = "done" /\ tts.outcomes # <<>> /\ LastOutcome(tts).kind = "ok"

\* C17: when every line parses and carries a success code, the audio is the
\* concatenation in line order of the non-empty data fields, equal chunks
\* kept; AA, BB, empty gives AABB and the single object ZZZZ gives ZZZZ.
C17_AudioIsConcatenationInLineOrder ==
  Answered =>
    /\ ( /\ AllFragments(tts.responseText, LAMBDA l : l.code \in SuccessCodes)
         /\ ChunksInOrder(tts.responseText) # <<>> )
       => tts.result = Success(ChunksInOrder(tts.responseText))
    /\ tts.responseText = <<Fragment(<<0>>, {}, <<"A", "A">>), Fragment(<<0>>, {}, <<"B", "B">>),
                            Fragment(<<0>>, {}, <<>>)>>
       => tts.result = Success(<<"A", "A", "B", "B">>)
    /\ tts.responseText = <<Fragment(<<0>>, {}, <<"Z", "Z", "Z", "Z">>)>>
       => tts.result = Success(<<"Z", "Z", "Z", "Z">>)

C17_Witness ==
  /\ Answered
  /\ tts.responseText = <<Fragment(<<0>>, {}, BB), Fragment(<<AlternateSuccessCode>>, {}, AA),
                          Fragment(<<0>>, {}, BB)>>
  /\ tts.result.audio = <<"B", "B", "A", "A", "B", "B">>

\* C18 as stated: a fragment with a non-negative code that is not a success
\* code is tolerated at any position, the last line included: the chunks of
\* all fragments are returned.
C18_PositiveCodeToleratedAnywhere ==
  ( /\ Answered
    /\ AllFragments(tts.responseText, LAMBDA l : l.code \in SuccessCodes \/ Positive(l))
    /\ ChunksInOrder(tts.responseText) # <<>> )
  => tts.result = Success(ChunksInOrder(tts.responseText))

\* C18 amended: such a fragment is tolerated at any position but the last:
\* when the last fragment carries a success code the chunks of all fragments
\* are returned, and when the last fragment carries such a code the call fails.
C18_PositiveCodeToleratedBeforeLast ==
  ( /\ Answered
    /\ AllFragments(tts.responseText, LAMBDA l : l.code \in SuccessCodes \/ Positive(l))
    /\ ChunksInOrder(tts.responseText) # <<>> )
  => IF LastLine(tts.responseText).code \in SuccessCodes
     THEN tts.result = Success(ChunksInOrder(tts.responseText))
     ELSE tts.result.status = "failure" /\ tts.result.audio = <<>>

C18_Witness ==
  /\ Answered
  /\ tts.responseText = <<Fragment(<<401>>, {}, AA), Fragment(<<401>>, {}, <<>>),
                          Fragment(<<0>>, {}, BB)>>
  /\ tts.result = Success(<<"A", "A", "B", "B">>)

\* C19: a fragment with a negative code, wherever it is and whatever chunks
\* the fragments before it carried, makes the call a Failure with no audio.
C19_NegativeCodeFails ==
  (Answered /\ \E i \in DOMAIN tts.responseText : Negative(tts.responseText[i]))
  => /\ tts.result.status = "failure"
     /\ tts.result.audio = <<>>

C19_Witness ==
  /\ Answered
  /\ tts.responseText = <<Fragment(<<0>>, {}, AA), Fragment(<<0>>, {}, BB),
                          Fragment(<<-1>>, {}, <<>>)>>
  /\ tts.result.status = "failure"

\* C20: a non-blank line that does not parse as JSON makes the call a Failure
\* (malformed response, unless a line before it already failed the call) with
\* no audio, whatever the other lines carried.
C20_UnparsableLineFails ==
  LET text == tts.responseText IN
  (Answered /\ \E i \in DOMAIN text : text[i].kind = "bad")
  => /\ tts.result.status = "failure"
     /\ tts.result.audio = <<>>
     /\ (\A i \in DOMAIN text : ~Negative(text[i])) => tts.result.error = "MalformedResponse"

C20_Witness ==
  /\ Answered
  /\ tts.responseText = <<Fragment(<<0>>, {}, AA), BadLine, Fragment(<<0>>, {}, BB)>>
  /\ tts.result = Failure("MalformedResponse")

NonBlankLines(responseText) ==
  Cardinality({i \in DOMAIN responseText : ~IsBlank(responseText[i])})
NonNegative(l) == IsFragment(l) /\ l.code # <<>> /\ l.code[1] >= 0

\* C21 as stated: when every line parses and no fragment carried a chunk,
\* only negative codes are fatal in the fallback: fragments that all have
\* non-negative codes and no data give Failure EmptyAudioData.
C21_NoChunkGivesEmptyAudioData ==
  ( /\ Answered
    /\ AllFragments(tts.responseText, NonNegative)
    /\ ChunksInOrder(tts.responseText) = <<>> )
  => tts.result = Failure("EmptyAudioData")

\* C21 amended: with no chunk collected the whole body is parsed once as one
\* JSON value: two or more fragments fail as a malformed response; one
\* fragment fails on its status when its code is not a success code
\* (positive codes included), and with EmptyAudioData when it is.
C21_FallbackParsesTheBodyOnce ==
  ( /\ Answered
    /\ AllFragments(tts.responseText, NonNegative)
    /\ ChunksInOrder(tts.responseText) = <<>> )
  => IF NonBlankLines(tts.responseText) >= 2
     THEN tts.result = Failure("MalformedResponse")
     ELSE IF LastLine(tts.responseText).code \notin SuccessCodes
     THEN /\ tts.result.status = "failure"
          /\ tts.result.error \in {"UpstreamError", "AuthError", "PermissionError",
                                   "RateLimited", "ServerError"}
     ELSE tts.result = Failure("EmptyAudioData")

C21_Witness ==
  /\ Answered
  /\ tts.responseText = <<BlankLine, Fragment(<<AlternateSuccessCode>>, {}, <<>>)>>
  /\ tts.result = Failure("EmptyAudioData")

\* The body is empty, has an unparsable line or a negative code, or no chunk.
ProtocolFailure(responseText) ==
  \/ \A i \in DOMAIN responseText : IsBlank(responseText[i])
  \/ \E i \in DOMAIN responseText : responseText[i].kind = "bad"
  \/ \E i \in DOMAIN responseText : Negative(responseText[i])
  \/ ChunksInOrder(responseText) = <<>>

\* C22: once an attempt has returned an HTTP-OK response no further attempt
\* is made and no retry delay is waited, whatever the body contains: the
\* call ends at once, with a Failure unless the body reassembles.
C22_ProtocolFailuresAreNotRetried ==
  [][tts.pc = "readingBody" =>
       /\ tts'.fetches = tts.fetches
       /\ tts'.delays = tts.delays
       /\ tts'.pc \in {"readingBody", "done"}
       /\ tts'.pc = "done" /\ ProtocolFailure(tts'.responseText)
            => tts'.result.status = "failure"]_vars

C22_Witness ==
  /\ tts.pc = "done"
  /\ tts.outcomes = <<Outcome("http", 500), Outcome("ok", 200)>>
  /\ tts.responseText = <<Fragment(<<0>>, {}, AA), Fragment(<<-1>>, {}, <<>>)>>
  /\ tts.result.status = "failure"
  /\ tts.fetches = 2
  /\ tts.delays = 1

\* C23: the response {"code":401,"message":"bad key"} to the first attempt
\* gives at once a Failure classified AuthError: one network attempt, no
\* retry delay.
C23_Code401IsAnAuthError ==
  ( /\ tts.pc = "done"
    /\ tts.outcomes = <<Outcome("ok", 200)>>
    /\ tts.responseText = <<Fragment(<<401>>, {}, <<>>)>> )
  => /\ tts.result = Failure("AuthError")
     /\ tts.fetches = 1
     /\ tts.delays = 0

C23_Witness ==
  /\ tts.pc = "done"
  /\ tts.outcomes = <<Outcome("ok", 200)>>
  /\ tts.responseText = <<Fragment(<<401>>, {}, <<>>)>>
  /\ tts.result.error = "AuthError"

\* C24: an empty or all-blank response body gives Failure EmptyResponse
\* with no split into lines, no JSON.parse and no data read, and no attempt
\* or delay follows it.
C24_EmptyBodyFailsBeforeParsing ==
  (Answered /\ \A i \in DOMAIN tts.responseText : IsBlank(tts.responseText[i]))
  => /\ tts.result = Failure("EmptyResponse")
     /\ ~tts.split
     /\ tts.parsed = 0
     /\ tts.fetches = Len(tts.outcomes)
     /\ tts.delays = tts.fetches - 1

C24_Witness ==
  /\ Answered
  /\ tts.responseText = <<BlankLine>>
  /\ tts.result = Failure("EmptyResponse")

\* C25: when the line loop has run through and collected at least one chunk,
\* the last fragment decides: Success with the concatenated audio when its
\* code is 0, absent or the alternate success code, Failure when it is any
\* other code, whatever the codes of the fragments before it.
C25_LastFragmentDecides ==
  LET text == tts.responseText IN
  ( /\ Answered
    /\ AllFragments(text, LAMBDA l : l = LastLine(text) \/ ~Negative(l))
    /\ ChunksInOrder(text) # <<>> )
  => IF LastLine(text).code \in SuccessCodes \cup {<<>>}
     THEN tts.result = Success(ChunksInOrder(text))
     ELSE tts.result.status = "failure" /\ tts.result.audio = <<>>

C25_Witness ==
  /\ Answered
  /\ tts.responseText = <<Fragment(<<401>>, {}, AA), Fragment(<<>>, {}, BB)>>
  /\ tts.result = Success(<<"A", "A", "B", "B">>)

\* ------------------------------------------- the arbiter, distinct callers
\* The identities of the requests waiting in playQueue.
PendingIds == {calls[playQueue[i]].id : i \in DOMAIN playQueue}

\* requestPlay with an identity that is neither playing nor pending.
RequestPlayDistinct ==
  /\ Len(calls) < MaxCalls
  /\ \E id \in KnownIds \ ({currentPlayingId} \cup PendingIds) :
       /\ Commit(requestPlay(Here, id))
       /\ Called("requestPlay", id, Len(calls) + 1)
  /\ UNCHANGED audio

\* Only requestPlay is called, and the actions settle.
NextDistinct ==
  \/ RequestPlayDistinct
  \/ ActionSettles

SpecDistinct == Init /\ [][NextDistinct]_vars

\* C26: when every requestPlay brings an identity that is neither playing nor
\* pending and nothing else is called, no two actions run at the same time, a
\* request is enqueued exactly when an action is running, and the actions
\* start in the order in which the requests arrived.
C26_DistinctCallersAreSerialized ==
  [][/\ Cardinality({r \in DOMAIN calls' : calls'[r].action = "running"}) <= 1
     /\ \A r1 \in DOMAIN calls' : \A r2 \in DOMAIN calls' :
          (r1 < r2 /\ calls'[r2].action # "queued") => calls'[r1].action \in {"ok", "failed"}
     /\ call'.op = "requestPlay" /\ Len(calls') = Len(calls) + 1
          => (calls'[call'.req].path = "queued" <=> Running # {})]_vars

C26_Witness ==
  /\ Len(calls) = 3
  /\ calls[1].path = "immediate"
  /\ calls[1].action = "failed"
  /\ calls[2].path = "queued"
  /\ calls[2].action = "ok"
  /\ calls[3].path = "queued"
  /\ calls[3].action = "running"

\* ------------------------------------------------ claims on the arbiter
StartedAtArrival(r) == calls[r].path \in {"immediate", "retrigger"}
\* currentPlayingId no longer refers to the run of call r: it names another
\* identity, or a later run of the same identity started by a retrigger.
Superseded(r) ==
  \/ calls[r].id # currentPlayingId
  \/ \E r2 \in Running :
       /\ r2 > r
       /\ calls[r2].id = calls[r].id
       /\ StartedAtArrival(r) /\ StartedAtArrival(r2)

\* C27: when the action of a superseded run settles while another action
\* that currentPlayingId names is still running, currentPlayingId is left as
\* it is.
C27_StaleCompletionKeepsMarker ==
  [][( /\ call'.op \in {"finallyImmediate", "finallyDrain"}
       /\ Superseded(call'.req)
       /\ \E r2 \in Running \ {call'.req} : calls[r2].id = currentPlayingId )
     => currentPlayingId' = currentPlayingId]_vars

\* C28: a request that arrived while others were waiting in playQueue does
\* not have its action started before theirs, also after stopCurrent or
\* onPlayEnded has cleared currentPlayingId.
C28_NoOvertaking ==
  \A r1 \in DOMAIN calls : \A r2 \in DOMAIN calls :
    (r1 < r2 /\ calls[r1].action = "queued") => ~Started(r2)

\* C29: clearQueue empties playQueue, runs no removed action and leaves
\* currentPlayingId and the running action alone; the promise of a removed
\* request stays pending for ever after.
C29_ClearQueueDropsTheWaiting ==
  [][/\ call'.op = "clearQueue" =>
          /\ playQueue' = <<>>
          /\ currentPlayingId' = currentPlayingId
          /\ isProcessing' = isProcessing
          /\ events' = <<>>
          /\ \A r \in DOMAIN calls :
               IF \E i \in DOMAIN playQueue : playQueue[i] = r
               THEN ~Started(r) /\ calls'[r].action = "cleared" /\ calls'[r].promise = "pending"
               ELSE calls'[r] = calls[r]
     /\ \A r \in DOMAIN calls :
          calls[r].action = "cleared" =>
            calls'[r].action = "cleared" /\ calls'[r].promise = "pending"]_vars

C29_Witness ==
  /\ call.op = "finallyImmediate"
  /\ calls[call.req].promise = "resolved"
  /\ playQueue = <<>>
  /\ \E r \in DOMAIN calls : calls[r].action = "cleared" /\ calls[r].promise = "pending"

\* C30: when the call fails on a fragment with a negative code (every line
\* before it parsed and had no negative code), the failure is the upstream
\* error of that fragment, whatever digits its code and message contain.
C30_NegativeCodeIsAnUpstreamError ==
  LET text == tts.responseText IN
  ( /\ Answered
    /\ \E i \in DOMAIN text :
         /\ Negative(text[i])
         /\ \A j \in 1..(i - 1) : IsBlank(text[j]) \/ (IsFragment(text[j]) /\ ~Negative(text[j])) )
  => tts.result = Failure("UpstreamError")

====
